---- MODULE Spec2Model ----
(***************************************************************************)
(* UdpMavlinkProtocol (lib/udp_mavlink_protocol.py): the MAVLink v2 stream *)
(* codec of openc3-cosmos-mavlink.  read_data buffers the bytes of the UDP *)
(* interface, resynchronises on 0xFD, cuts candidate packets out of the    *)
(* buffer and feeds them byte by byte to the pymavlink parser self.mav;    *)
(* write_data packs a JSON command into a MAVLink v2 packet.               *)
(*                                                                         *)
(* Bytes are the integers 0..255.  The pymavlink calls the protocol makes  *)
(* (parse_char, decode, pack, x25crc) are modelled as the library          *)
(* computes them, at the call sites of the protocol.                       *)
(***************************************************************************)
EXTENDS Integers, Sequences, FiniteSets, TLC

\* ------------------------------------------------------------------ bytes

\* bitwise exclusive or of two numbers below 16, bit by bit
RECURSIVE XorBits(_, _)
XorBits(a, b) ==
    IF a = 0 THEN b
    ELSE IF b = 0 THEN a
    ELSE (((a % 2) + (b % 2)) % 2) + 2 * XorBits(a \div 2, b \div 2)

XorNibble == [a \in 0..15 |-> [b \in 0..15 |-> XorBits(a, b)]]

\* a ^ b, four bits at a time
RECURSIVE Xor(_, _)
Xor(a, b) ==
    IF a = 0 THEN b
    ELSE IF b = 0 THEN a
    ELSE XorNibble[a % 16][b % 16] + 16 * Xor(a \div 16, b \div 16)

RECURSIVE Pow256(_)
Pow256(i) == IF i = 0 THEN 1 ELSE 256 * Pow256(i - 1)

\* struct.pack('<..') of one unsigned integer of w bytes
LEBytes(v, w) == [i \in 1..w |-> (v \div Pow256(i - 1)) % 256]

\* struct.unpack('<..') of w bytes at offset off (0-based) of s
RECURSIVE LEValue(_, _, _)
LEValue(s, off, w) ==
    IF w = 0 THEN 0 ELSE s[off + 1] + 256 * LEValue(s, off + 1, w - 1)

\* a cut that empties the buffer
DropAll(s, n) == <<>>

Slice(s, from, to) == IF to < from THEN <<>> ELSE SubSeq(s, from, to)

Drop(s, n) == Slice(s, n + 1, Len(s))

\* ----------------------------------------------------- protocol constants

MAVLINK_STX == 253
MAVLINK_HEADER_LEN == 10
MAVLINK_CRC_LEN == 2

\* pymavlink dialect constants behind the import of mavlink2
PROTOCOL_MARKER_V1 == 254
HEADER_LEN_V1 == 6
MAVLINK_IFLAG_SIGNED == 1
MAVLINK_SIGNATURE_BLOCK_LEN == 13
MAVLINK_MSG_ID_UNKNOWN == -1
ERROR_MSGID == 65535

\* ---------------------------------------------------------------- x25 crc

\* one step of x25crc.accumulate
CrcStep(accum, b) ==
    LET t1 == Xor(b, accum % 256)
        t2 == (Xor(t1, t1 * 16)) % 256
    IN  Xor(Xor(Xor(accum \div 256, t2 * 256), t2 * 8), t2 \div 16)

RECURSIVE CrcAcc(_, _, _)
CrcAcc(accum, buf, i) ==
    IF accum < 0 \/ i > Len(buf) THEN accum
    ELSE CrcAcc(CrcStep(accum, buf[i]), buf, i + 1)

\* x25crc(buf).crc
X25(buf) == CrcAcc(65535, buf, 1)

\* ------------------------------------------------------- schema registry

\* the part of mavlink2.mavlink_map the model carries: per message class its
\* id, crc_extra, fieldnames (constructor order), fieldtypes, and the wire
\* layout (ordered_fieldnames with the byte width of each)
MsgClasses ==
    [HEARTBEAT |->
        [id |-> 0, crc_extra |-> 50,
         fieldnames |-> <<"type", "autopilot", "base_mode", "custom_mode",
                          "system_status", "mavlink_version">>,
         fieldtypes |-> <<"uint8_t", "uint8_t", "uint8_t", "uint32_t",
                          "uint8_t", "uint8_t">>,
         ordered |-> <<"custom_mode", "type", "autopilot", "base_mode",
                       "system_status", "mavlink_version">>,
         widths |-> <<4, 1, 1, 1, 1, 1>>],
     SET_MODE |->
        [id |-> 11, crc_extra |-> 89,
         fieldnames |-> <<"target_system", "base_mode", "custom_mode">>,
         fieldtypes |-> <<"uint8_t", "uint8_t", "uint32_t">>,
         ordered |-> <<"custom_mode", "target_system", "base_mode">>,
         widths |-> <<4, 1, 1>>]]

MsgNames == DOMAIN MsgClasses

\* mapkey in mavlink_map
KnownId(id) == \E n \in MsgNames : MsgClasses[n].id = id

NameOfId(id) == CHOOSE n \in MsgNames : MsgClasses[n].id = id

RECURSIVE SumTo(_, _)
SumTo(ws, k) == IF k = 0 THEN 0 ELSE ws[k] + SumTo(ws, k - 1)

\* type.unpacker.size
CSize(cls) == SumTo(cls.widths, Len(cls.widths))

\* ------------------------------------------------------ pymavlink: pack

\* a pack that takes the fields in the order of the constructor
RECURSIVE PackFieldsDeclared(_, _, _)
PackFieldsDeclared(cls, vals, k) ==
    IF k > Len(cls.fieldnames) THEN <<>>
    ELSE LEBytes(vals[cls.fieldnames[k]], cls.widths[k])
            \o PackFieldsDeclared(cls, vals, k + 1)

\* the payload of self.unpacker.pack(...): the fields in wire order
RECURSIVE PackFields(_, _, _)
PackFields(cls, vals, k) ==
    IF k > Len(cls.ordered) THEN <<>>
    ELSE LEBytes(vals[cls.ordered[k]], cls.widths[k]) \o PackFields(cls, vals, k + 1)

\* MAVLink 2 strips the trailing zero bytes of a payload, down to one byte
RECURSIVE TruncLen(_, _)
TruncLen(payload, plen) ==
    IF plen > 1 /\ payload[plen] = 0 THEN TruncLen(payload, plen - 1) ELSE plen

\* MAVLink_header.pack: '<BBBBBBBHB'
HeaderBytes(mlen, incompat, compat, seq, sys, comp, msgId) ==
    <<MAVLINK_STX, mlen, incompat, compat, seq, sys, comp>> \o LEBytes(msgId, 3)

\* header + payload + x25crc(msgbuf[1:] + crc_extra), as MAVLink_message._pack
Seal(hdrAndPayload, crc_extra) ==
    hdrAndPayload \o LEBytes(X25(Tail(hdrAndPayload) \o <<crc_extra>>), 2)

\* msg.pack(mav): the header carries mav.seq, mav.srcSystem, mav.srcComponent;
\* pack leaves mav.seq as it is (only MAVLink.send advances it)
MsgPack(cls, vals, seq, sys, comp) ==
    LET full == PackFields(cls, vals, 1)
        payload == Slice(full, 1, TruncLen(full, Len(full)))
    IN  Seal(HeaderBytes(Len(payload), 0, 0, seq, sys, comp, cls.id) \o payload,
             cls.crc_extra)

\* ---------------------------------------------------- pymavlink: decode

NoMsg == [kind |-> "none"]

\* the fields of a payload zero-extended to the canonical size
RECURSIVE UnpackFields(_, _, _, _)
UnpackFields(cls, mbuf, k, off) ==
    IF k > Len(cls.ordered) THEN <<>>
    ELSE <<LEValue(mbuf, off, cls.widths[k])>>
         \o UnpackFields(cls, mbuf, k + 1, off + cls.widths[k])

ZeroExtend(mbuf, csize) ==
    IF Len(mbuf) < csize THEN mbuf \o [i \in 1..(csize - Len(mbuf)) |-> 0]
    ELSE Slice(mbuf, 1, csize)

FieldMap(cls, mbuf) ==
    LET t == UnpackFields(cls, ZeroExtend(mbuf, CSize(cls)), 1, 0)
    IN  [f \in {cls.ordered[k] : k \in 1..Len(cls.ordered)} |->
            t[CHOOSE k \in 1..Len(cls.ordered) : cls.ordered[k] = f]]

\* MAVLink.decode(msgbuf): a message, a MAVLink_unknown, or a raised MAVError
Decode(msgbuf) ==
    LET v1 == msgbuf[1] = PROTOCOL_MARKER_V1
        headerlen == IF v1 THEN HEADER_LEN_V1 ELSE MAVLINK_HEADER_LEN
        mlen == msgbuf[2]
        incompat == IF v1 THEN 0 ELSE msgbuf[3]
        srcSystem == IF v1 THEN msgbuf[4] ELSE msgbuf[6]
        srcComponent == IF v1 THEN msgbuf[5] ELSE msgbuf[7]
        msgId == IF v1 THEN msgbuf[6] ELSE LEValue(msgbuf, 7, 3)
        siglen == IF incompat % 2 = MAVLINK_IFLAG_SIGNED
                  THEN MAVLINK_SIGNATURE_BLOCK_LEN ELSE 0
        body == Len(msgbuf) - (2 + siglen)
    IN  IF msgbuf[1] # PROTOCOL_MARKER_V1 /\ msgbuf[1] # MAVLINK_STX
        THEN [kind |-> "raise", what |-> "invalid MAVLink prefix"]
        ELSE IF mlen # Len(msgbuf) - (headerlen + 2 + siglen)
        THEN [kind |-> "raise", what |-> "invalid MAVLink message length"]
        ELSE IF ~KnownId(msgId)
        THEN [kind |-> "msg", msgId |-> MAVLINK_MSG_ID_UNKNOWN,
              type |-> "UNKNOWN_" \o ToString(msgId),
              srcSystem |-> 0, srcComponent |-> 0,
              fields |-> [f \in {"data"} |-> msgbuf]]
        ELSE LET cls == MsgClasses[NameOfId(msgId)]
                 crc == LEValue(msgbuf, body, 2)
                 crc2 == X25(Slice(msgbuf, 2, body) \o <<cls.crc_extra>>)
             IN  IF crc # crc2
                 THEN [kind |-> "raise", what |-> "invalid MAVLink CRC"]
                 ELSE [kind |-> "msg", msgId |-> msgId, type |-> NameOfId(msgId),
                       srcSystem |-> srcSystem, srcComponent |-> srcComponent,
                       fields |-> FieldMap(cls, Slice(msgbuf, headerlen + 1, body))]

\* ------------------------------------------------- pymavlink: parse_char

NoExc == [name |-> "None", text |-> ""]

MAVError(text) == [name |-> "MAVError", text |-> text]

\* mavlink2.MAVLink(None, srcSystem, srcComponent): buf holds the bytes from
\* buf_index on
NewMav(sys, comp) ==
    [seq |-> 0, srcSystem |-> sys, srcComponent |-> comp,
     buf |-> <<>>, expected_length |-> HEADER_LEN_V1 + 2,
     have_prefix_error |-> FALSE, total_receive_errors |-> 0]

\* expected_length once three bytes are buffered (mav20_h3_unpacker)
ExpectedLength(buf, header_len) ==
    buf[2]
    + (IF buf[1] = MAVLINK_STX /\ buf[3] % 2 = MAVLINK_IFLAG_SIGNED
       THEN MAVLINK_SIGNATURE_BLOCK_LEN ELSE 0)
    + header_len + 2

\* mav.parse_char(bytes([c])) without robust_parsing: the parser after the
\* call, the message returned (or none) and the exception raised (or none)
ParseChar(mav, c) ==
    LET buf == Append(mav.buf, c)
        header_len == IF buf[1] = MAVLINK_STX THEN MAVLINK_HEADER_LEN
                      ELSE HEADER_LEN_V1
    IN  IF buf[1] # PROTOCOL_MARKER_V1 /\ buf[1] # MAVLINK_STX
        THEN IF mav.have_prefix_error
             THEN [mav |-> [mav EXCEPT !.buf = Tail(buf)],
                   m |-> NoMsg, exc |-> NoExc]
             ELSE [mav |-> [mav EXCEPT !.buf = Tail(buf),
                                       !.have_prefix_error = TRUE,
                                       !.total_receive_errors = @ + 1],
                   m |-> NoMsg, exc |-> MAVError("invalid MAVLink prefix")]
        ELSE LET exp == IF Len(buf) >= 3 THEN ExpectedLength(buf, header_len)
                        ELSE mav.expected_length
             IN  IF exp >= header_len + 2 /\ Len(buf) >= exp
                 THEN LET after == [mav EXCEPT !.buf = Drop(buf, exp),
                                               !.expected_length = header_len + 2,
                                               !.have_prefix_error = FALSE]
                          d == Decode(Slice(buf, 1, exp))
                      IN  IF buf[1] = MAVLINK_STX
                             /\ buf[3] - (buf[3] % 2) # 0
                          THEN [mav |-> after, m |-> NoMsg,
                                exc |-> MAVError("invalid incompat_flags")]
                          ELSE IF d.kind = "raise"
                          THEN [mav |-> after, m |-> NoMsg, exc |-> MAVError(d.what)]
                          ELSE [mav |-> after, m |-> d, exc |-> NoExc]
                 ELSE [mav |-> [mav EXCEPT !.buf = buf,
                                           !.expected_length = exp,
                                           !.have_prefix_error = FALSE],
                       m |-> NoMsg, exc |-> NoExc]

\* for byte in packet_data: msg = self.mav.parse_char(bytes([byte]))
\* msg is what the last call returned; an exception ends the loop
RECURSIVE FeedPacket(_, _, _, _)
FeedPacket(mav, packet_data, i, msg) ==
    IF i > Len(packet_data) THEN [mav |-> mav, m |-> msg, exc |-> NoExc]
    ELSE LET r == ParseChar(mav, packet_data[i])
         IN  IF r.exc.name # "None" THEN r
             ELSE FeedPacket(r.mav, packet_data, i + 1, r.m)

\* -------------------------------------------------------------- read_data

\* a read_data that keeps only the newest chunk
AppendDataReplacing(buffer, data) == data

\* self.buffer += data
AppendData(buffer, data) == buffer \o data

\* a resynchronisation that also stops at the MAVLink 1 marker
IsSyncEitherMarker(byte) == byte \in {MAVLINK_STX, PROTOCOL_MARKER_V1}

\* self.buffer[0] == self.MAVLINK_STX
IsSync(byte) == byte = MAVLINK_STX

\* a resync that leaves the byte in the buffer
ResyncDropNone(buf) == buf

\* a resynchronisation that discards two bytes at a time
ResyncDropTwo(buffer) == Drop(buffer, 2)

\* self.buffer = self.buffer[1:]
ResyncDrop(buffer) == Tail(buffer)

\* a packet length without the checksum bytes
TotalLenNoCrc(payload_len) == MAVLINK_HEADER_LEN + payload_len

\* total_len = MAVLINK_HEADER_LEN + payload_len + MAVLINK_CRC_LEN
TotalLen(payload_len) == MAVLINK_HEADER_LEN + payload_len + MAVLINK_CRC_LEN

\* a filter that is never applied
PassesFilterAlways(target_sysid, srcSystem) == TRUE

\* the system-id filter: the message goes on to the caller
PassesFilter(target_sysid, srcSystem) ==
    ~(target_sysid # 0 /\ srcSystem # target_sysid)

\* json.dumps(msg_dict): the bytearray a MAVLink_unknown carries as its
\* "data" field is not JSON serializable; every schema field of the modelled
\* message classes is
JsonDumpsExc(m) ==
    IF m.msgId = MAVLINK_MSG_ID_UNKNOWN
    THEN [name |-> "TypeError",
          text |-> "Object of type bytearray is not JSON serializable"]
    ELSE NoExc

\* msg.to_dict() with MSGID, MSGNAME, SYSTEM_ID and COMPONENT_ID added
MsgDict(m) ==
    [MSGID |-> m.msgId, MSGNAME |-> m.type,
     SYSTEM_ID |-> m.srcSystem, COMPONENT_ID |-> m.srcComponent,
     fields |-> m.fields]

\* 'crc' in str(e).lower() or 'checksum' in str(e).lower()
MentionsCrc(text) == text = "invalid MAVLink CRC"

\* 'parse' in str(e).lower(): none of the messages raised here has it
MentionsParse(text) == FALSE

\* error_type of the except branch
ExceptErrorType(e) ==
    IF MentionsCrc(e.text) THEN "CRC_FAILURE"
    ELSE IF MentionsParse(e.text) THEN "PARSE_ERROR"
    ELSE e.name

\* error_type of the branch taken when pymavlink counted an error
CountedErrorType(mav) ==
    IF mav.have_prefix_error THEN "PREFIX_ERROR" ELSE "CRC_FAILURE"

\* the error packet (the timestamp is left out)
ErrorPacket(error_type, packet_data) ==
    [MSGID |-> ERROR_MSGID, MSGNAME |-> "MAVLINK_ERROR",
     SYSTEM_ID |-> IF Len(packet_data) > 5 THEN packet_data[6] ELSE 0,
     COMPONENT_ID |-> IF Len(packet_data) > 6 THEN packet_data[7] ELSE 0,
     error_type |-> error_type,
     packet_length |-> Len(packet_data),
     raw_packet |-> packet_data]

\* one call of inject_tlm: sinkOk is whether the call returns or raises
Inject(pushed, rec, sinkOk) == Append(pushed, [rec |-> rec, raised |-> ~sinkOk])

\* an inject_tlm call outside any try statement
InjectTlmUncaught(sinkOk) == IF sinkOk THEN "returned" ELSE "raised"

\* try: self.inject_tlm(..) except Exception: print(..): how the statement
\* ends: the call returned, or it raised and the exception was caught
InjectTlm(sinkOk) == IF sinkOk THEN "returned" ELSE "caught"

\* what read_data does after the error telemetry: continue (""), unless an
\* exception of inject_tlm is on its way out of read_data
AfterInject(sinkOk) == IF InjectTlm(sinkOk) = "raised" THEN "RAISE" ELSE ""

\* one pass of the while loop of read_data on st (the instance with what the
\* call has collected so far): ret is "STOP" or "MSG" when the pass returns,
\* "RAISE" when an exception leaves read_data, and stays "" when the pass
\* ends in continue.  frames records every packet cut
\* out of the buffer with what became of it (returned, filtered, error with
\* its error_type, or silent when nothing was returned or pushed for it).
LoopStep(st, sinkOk) ==
    IF Len(st.buffer) < 1 THEN [st EXCEPT !.ret = "STOP"]
    ELSE IF ~IsSync(st.buffer[1])
    THEN [st EXCEPT !.buffer = ResyncDrop(st.buffer)]
    ELSE IF Len(st.buffer) < MAVLINK_HEADER_LEN THEN [st EXCEPT !.ret = "STOP"]
    ELSE IF Len(st.buffer) < TotalLen(st.buffer[2]) THEN [st EXCEPT !.ret = "STOP"]
    ELSE
    LET total_len == TotalLen(st.buffer[2])
        packet_data == Slice(st.buffer, 1, total_len)
        errors_before == st.mav.total_receive_errors
        fed == FeedPacket(st.mav, packet_data, 1, NoMsg)
        errors_after == fed.mav.total_receive_errors
        cut == [st EXCEPT !.buffer = Drop(st.buffer, total_len), !.mav = fed.mav]
        dumps == IF fed.m.kind = "msg" THEN JsonDumpsExc(fed.m) ELSE NoExc
        Excepted(e) ==
            LET rec == ErrorPacket(ExceptErrorType(e), packet_data)
            IN  [cut EXCEPT !.error_count = @ + 1,
                            !.ret = AfterInject(sinkOk),
                            !.pushed = Inject(@, rec, sinkOk),
                            !.frames = Append(@, [packet |-> packet_data,
                                                  outcome |-> "error",
                                                  error_type |-> rec.error_type])]
    IN  IF fed.exc.name # "None" THEN Excepted(fed.exc)
        ELSE IF fed.m.kind = "msg"
        THEN IF ~PassesFilter(st.target_sysid, fed.m.srcSystem)
             THEN [cut EXCEPT !.filtered = Append(@, fed.m),
                              !.frames = Append(@, [packet |-> packet_data,
                                                    outcome |-> "filtered",
                                                    error_type |-> ""])]
             ELSE IF dumps.name # "None" THEN Excepted(dumps)
             ELSE [cut EXCEPT !.ret = "MSG", !.msg = MsgDict(fed.m),
                              !.frames = Append(@, [packet |-> packet_data,
                                                    outcome |-> "returned",
                                                    error_type |-> ""])]
        ELSE IF errors_after > errors_before
        THEN [cut EXCEPT !.error_count = @ + 1,
                         !.ret = AfterInject(sinkOk),
                         !.pushed = Inject(@, ErrorPacket(CountedErrorType(fed.mav),
                                                          packet_data), sinkOk),
                         !.frames = Append(@, [packet |-> packet_data,
                                               outcome |-> "error",
                                               error_type |-> CountedErrorType(fed.mav)])]
        ELSE [cut EXCEPT !.frames = Append(@, [packet |-> packet_data,
                                               outcome |-> "silent",
                                               error_type |-> ""])]

\* while True: passes until one returns
RECURSIVE ReadLoop(_, _)
ReadLoop(st, sinkOk) ==
    LET passes == {LoopStep(st, sinkOk)}
    IN  CHOOSE out \in {IF s.ret # "" THEN s ELSE ReadLoop(s, sinkOk) : s \in passes} :
            TRUE

\* read_data(data) on an instance: the instance after the call with the
\* value returned (ret, msg) and the record of the call
ReadDataCall(self, data, sinkOk) ==
    ReadLoop([target_sysid |-> self.target_sysid,
              buffer |-> AppendData(self.buffer, data),
              mav |-> self.mav,
              error_count |-> self.error_count,
              ret |-> "", msg |-> NoMsg,
              pushed |-> <<>>, filtered |-> <<>>, frames |-> <<>>],
             sinkOk)

\* ------------------------------------------------------------- write_data

\* Python values of a command: integers and strings
PyInt(n) == [t |-> "int", n |-> n, s |-> ""]

PyStr(str) == [t |-> "str", n |-> 0, s |-> str]

\* the arguments write_data is given: bytes, str or dict
PyBytes(seq) == [type |-> "bytes", bytes |-> seq, dict |-> <<>>]

PyText(seq) == [type |-> "str", bytes |-> seq, dict |-> <<>>]

PyDict(d) == [type |-> "dict", bytes |-> <<>>, dict |-> d]

\* {"MSGNAME":"heartbeat","custom_mode":7}
DocHeartbeat ==
    <<123, 34, 77, 83, 71, 78, 65, 77, 69, 34, 58, 34, 104, 101, 97, 114,
      116, 98, 101, 97, 116, 34, 44, 34, 99, 117, 115, 116, 111, 109, 95,
      109, 111, 100, 101, 34, 58, 55, 125>>

\* {"MSGNAME":"NOPE"}
DocNope ==
    <<123, 34, 77, 83, 71, 78, 65, 77, 69, 34, 58, 34, 78, 79, 80, 69, 34, 125>>

\* {}
DocEmpty == <<123, 125>>

\* {   (malformed)
DocOpen == <<123>>

\* []
DocList == <<91, 93>>

\* json.loads on the documents above: the value, or the exception raised
JsonLoads(text) ==
    IF text = DocHeartbeat
    THEN [exc |-> NoExc, isdict |-> TRUE,
          dict |-> [MSGNAME |-> PyStr("heartbeat"), custom_mode |-> PyInt(7)]]
    ELSE IF text = DocNope
    THEN [exc |-> NoExc, isdict |-> TRUE, dict |-> [MSGNAME |-> PyStr("NOPE")]]
    ELSE IF text = DocEmpty
    THEN [exc |-> NoExc, isdict |-> TRUE, dict |-> <<>>]
    ELSE IF text = DocList
    THEN [exc |-> NoExc, isdict |-> FALSE, dict |-> <<>>]
    ELSE [exc |-> [name |-> "JSONDecodeError", text |-> "Expecting value"],
          isdict |-> FALSE, dict |-> <<>>]

\* str.upper() on the names the commands use
Upper(str) ==
    IF str = "heartbeat" THEN "HEARTBEAT"
    ELSE IF str = "set_mode" THEN "SET_MODE"
    ELSE str

\* struct.pack of one field: an integer of the field's width
Packable(v, w) == v.t = "int" /\ v.n >= 0 /\ (w >= 4 \/ v.n < Pow256(w))

\* the value write_data passes for a schema field: the caller's value under
\* the exact key, else '' for char fields and 0 for the others
FieldValue(cmd, field, ftype) ==
    IF field \in DOMAIN cmd THEN cmd[field]
    ELSE IF ftype = "char" THEN PyStr("") ELSE PyInt(0)

\* write_data(data) on an instance: the value returned, the parser after the
\* call, and whether the try block ran to its return (ok).  Every exception
\* is caught and the argument is returned as is.
WriteDataCall(self, data) ==
    LET loaded == IF data.type = "dict"
                  THEN [exc |-> NoExc, isdict |-> TRUE, dict |-> data.dict]
                  ELSE JsonLoads(data.bytes)
        cmd == loaded.dict
        named == IF "MSGNAME" \in DOMAIN cmd THEN cmd["MSGNAME"] ELSE PyStr("")
        msg_name == Upper(named.s)
        cls == MsgClasses[msg_name]
        vals == [f \in {cls.fieldnames[k] : k \in 1..Len(cls.fieldnames)} |->
                    FieldValue(cmd, f,
                        cls.fieldtypes[CHOOSE k \in 1..Len(cls.fieldnames) :
                                          cls.fieldnames[k] = f])]
        width(f) == cls.widths[CHOOSE k \in 1..Len(cls.ordered) : cls.ordered[k] = f]
        failed ==
            \/ loaded.exc.name # "None"
            \/ ~loaded.isdict
            \/ named.t # "str"
            \/ msg_name \notin MsgNames
            \/ \E f \in DOMAIN vals : ~Packable(vals[f], width(f))
    IN  IF failed THEN [ret |-> data, mav |-> self.mav, ok |-> FALSE]
        ELSE [ret |-> PyBytes(MsgPack(cls, [f \in DOMAIN vals |-> vals[f].n],
                                      self.mav.seq, self.mav.srcSystem,
                                      self.mav.srcComponent)),
              mav |-> self.mav, ok |-> TRUE]

\* ------------------------------------------------------------------ reset

\* a reset that keeps the parser
ResetCallKeepingParser(self) ==
    [self EXCEPT !.buffer = <<>>, !.error_count = 0]

\* reset(): the buffer, the error count and a new parser
ResetCall(self) ==
    [self EXCEPT !.buffer = <<>>, !.error_count = 0,
                 !.mav = NewMav(self.gcs_sysid, self.gcs_compid)]

\* ------------------------------------------------------------------ bounds

\* garbage prefixes are at most this long
MaxGarbage == 2

\* a read_data call takes up to this many bytes of the wire, or all the rest
MaxChunk == 2

\* write_data calls per behaviour
MaxWrites == 2

\* reset calls per behaviour
MaxResets == 1

\* ----------------------------------------------------- the bytes on the wire

HeartbeatVals(cm) ==
    [type |-> 0, autopilot |-> 0, base_mode |-> 0, custom_mode |-> cm,
     system_status |-> 0, mavlink_version |-> 0]

\* a HEARTBEAT of system 1 and a SET_MODE of system 2, as a peer packs them
FrameA == MsgPack(MsgClasses.HEARTBEAT, HeartbeatVals(7), 0, 1, 1)

FrameB ==
    MsgPack(MsgClasses.SET_MODE,
            [target_system |-> 0, base_mode |-> 0, custom_mode |-> 5], 1, 2, 1)

ValidFrames == {FrameA, FrameB}

\* frame with bit b of byte i flipped
FlipBit(frame, i, b) ==
    [frame EXCEPT ![i] = Xor(@, CHOOSE p \in {1, 2, 4, 8, 16, 32, 64, 128} :
                                   \E k \in 0..7 : k = b /\ p = 2 ^ k)]

\* FrameA with one bit of its payload or checksum flipped
BitFlipped ==
    {FlipBit(FrameA, i, b) : i \in (MAVLINK_HEADER_LEN + 1)..Len(FrameA), b \in 0..7}

\* a correctly framed packet of a message id the dialect does not have
UnknownIdFrame == Seal(HeaderBytes(1, 0, 0, 0, 1, 1, 5) \o <<7>>, 0)

\* packets whose incompat_flags byte is not 0: the signed flag with a right
\* and a wrong checksum, and a flag pymavlink does not know
SignedFlagFrame == Seal(HeaderBytes(0, MAVLINK_IFLAG_SIGNED, 0, 0, 1, 1, 0), 50)

SignedFlagBadCrc == FlipBit(SignedFlagFrame, Len(SignedFlagFrame), 0)

OtherFlagFrame == Seal(HeaderBytes(1, 2, 0, 0, 1, 1, 0) \o <<7>>, 50)

\* a HEARTBEAT with payload_len 0: header and checksum only
ZeroLenFrame == Seal(HeaderBytes(0, 0, 0, 0, 1, 1, 0), 50)

MalformedFrames ==
    BitFlipped \cup {UnknownIdFrame, SignedFlagFrame, SignedFlagBadCrc, OtherFlagFrame}

GarbageBytes == {0, PROTOCOL_MARKER_V1, MAVLINK_STX}

RECURSIVE SeqsUpTo(_, _)
SeqsUpTo(S, n) ==
    IF n = 0 THEN {<<>>}
    ELSE LET shorter == SeqsUpTo(S, n - 1)
         IN  shorter \cup {Append(q, x) : q \in shorter, x \in S}

Garbage == SeqsUpTo(GarbageBytes, MaxGarbage)

\* what the peer and the line put on the wire in one behaviour: garbage g,
\* then packets a and b, then trailing bytes t
Scenarios ==
    {[g |-> <<>>, a |-> a, b |-> b, t |-> <<>>] :
        a \in ValidFrames \cup (MalformedFrames \ BitFlipped),
        b \in ValidFrames \cup {<<>>}}
    \cup
    {[g |-> <<>>, a |-> a, b |-> FrameB, t |-> <<>>] : a \in BitFlipped}
    \cup
    {[g |-> g, a |-> FrameA, b |-> <<>>, t |-> t] :
        g \in Garbage, t \in {<<>>, <<0, 7>>}}
    \cup
    {[g |-> g, a |-> <<>>, b |-> <<>>, t |-> <<>>] : g \in Garbage}

SmallScenarios ==
    {[g |-> <<>>, a |-> FrameA, b |-> FrameB, t |-> <<>>],
     [g |-> <<0>>, a |-> SignedFlagFrame, b |-> FrameA, t |-> <<>>]}

Wire(sc) == sc.g \o sc.a \o sc.b \o sc.t

Targets == {0, 1}

\* the commands handed to write_data
Commands ==
    {PyDict([MSGNAME |-> PyStr("HEARTBEAT"), custom_mode |-> PyInt(7)]),
     PyDict([MSGNAME |-> PyStr("set_mode"), base_mode |-> PyInt(4)]),
     PyDict([MSGNAME |-> PyStr("SET_MODE"), base_mode |-> PyInt(300)]),
     PyDict([MSGNAME |-> PyStr("HEARTBEAT"), type |-> PyStr("x")]),
     PyDict([MSGNAME |-> PyInt(5)]),
     PyDict([custom_mode |-> PyInt(7)]),
     PyDict([MSGNAME |-> PyStr("HEARTBEAT"), CUSTOM_MODE |-> PyInt(7)]),
     PyBytes(DocHeartbeat), PyBytes(DocNope), PyBytes(DocEmpty),
     PyBytes(DocOpen), PyBytes(DocList), PyText(DocHeartbeat), PyText(DocOpen)}

SmallCommands ==
    {PyDict([MSGNAME |-> PyStr("HEARTBEAT"), custom_mode |-> PyInt(7)]),
     PyBytes(DocNope)}

\* ------------------------------------------------------------------- state

VARIABLES
    gcs_sysid, gcs_compid, target_sysid,    \* configuration
    buffer, mav, error_count,               \* self.buffer, self.mav, self.error_count
    scenario, pos,                          \* the wire and how much of it was read
    returned,                               \* messages read_data returned
    injected,                               \* inject_tlm calls
    filtered,                               \* messages the filter dropped
    frames,                                 \* packets cut out of the buffer
    last,                                   \* the last call and its result
    mode,                                   \* how the wire was chunked so far
    sent,                                   \* what write_data returned
    resets                                  \* reset calls so far

vars == <<gcs_sysid, gcs_compid, target_sysid, buffer, mav, error_count,
          scenario, pos, returned, injected, filtered, frames, last, mode,
          sent, resets>>

Self ==
    [gcs_sysid |-> gcs_sysid, gcs_compid |-> gcs_compid,
     target_sysid |-> target_sysid, buffer |-> buffer, mav |-> mav,
     error_count |-> error_count]

\* UdpMavlinkProtocol(gcs_sysid, gcs_compid, target_sysid)
NewInstance(gs, gc, ts) ==
    [gcs_sysid |-> gs, gcs_compid |-> gc, target_sysid |-> ts,
     buffer |-> <<>>, mav |-> NewMav(gs, gc), error_count |-> 0]

NoCall == [op |-> "none", ret |-> "", input |-> "empty", pushed |-> 0]

\* what a call had to work on, the buffer with the chunk appended: nothing,
\* bytes none of which is the sync byte, or bytes with a sync byte
InputKind(bytes) ==
    IF bytes = <<>> THEN "empty"
    ELSE IF \A i \in 1..Len(bytes) : bytes[i] # MAVLINK_STX THEN "nosync"
    ELSE "sync"

InitWith(scs) ==
    /\ gcs_sysid = 255
    /\ gcs_compid = 0
    /\ target_sysid \in Targets
    /\ buffer = <<>>
    /\ mav = NewMav(255, 0)
    /\ error_count = 0
    /\ scenario \in scs
    /\ pos = 0
    /\ returned = <<>>
    /\ injected = <<>>
    /\ filtered = <<>>
    /\ frames = <<>>
    /\ last = NoCall
    /\ mode = "start"
    /\ sent = <<>>
    /\ resets = 0

Init == InitWith(SmallScenarios)

InitRead == InitWith(Scenarios)

\* the chunk sizes a call may take from the rest of the wire
ChunkSizes == LET rest == Len(Wire(scenario)) - pos
              IN  {n \in 0..MaxChunk : n <= rest} \cup {rest}

NextMode(n) ==
    IF n = 0 THEN mode
    ELSE IF mode = "start" /\ n = Len(Wire(scenario)) THEN "oneshot"
    ELSE IF mode \in {"start", "bytewise"} /\ n = 1 THEN "bytewise"
    ELSE "mixed"

\* read_data(data): data is the next n bytes of the wire
ReadData(n, sinkOk) ==
    LET data == Slice(Wire(scenario), pos + 1, pos + n)
    IN  \E r \in {ReadDataCall(Self, data, sinkOk)} :
        /\ buffer' = r.buffer
        /\ mav' = r.mav
        /\ error_count' = r.error_count
        /\ pos' = pos + n
        /\ returned' = IF r.ret = "MSG" THEN Append(returned, r.msg) ELSE returned
        /\ injected' = injected \o r.pushed
        /\ filtered' = filtered \o r.filtered
        /\ frames' = frames \o r.frames
        /\ last' = [op |-> "read", ret |-> r.ret,
                    input |-> InputKind(buffer \o data),
                    pushed |-> Len(r.pushed)]
        /\ mode' = NextMode(n)
        /\ UNCHANGED <<gcs_sysid, gcs_compid, target_sysid, scenario, sent, resets>>

\* write_data(data)
WriteData(data) ==
    \E w \in {WriteDataCall(Self, data)} :
        /\ Len(sent) < MaxWrites
        /\ mav' = w.mav
        /\ sent' = Append(sent, [data |-> data, ret |-> w.ret, ok |-> w.ok])
        /\ last' = [NoCall EXCEPT !.op = "write"]
        /\ UNCHANGED <<gcs_sysid, gcs_compid, target_sysid, buffer, error_count,
                       scenario, pos, returned, injected, filtered, frames,
                       mode, resets>>

\* what reset() found: a partial frame in the buffer together with counted
\* errors and bytes inside the parser, or less than that
ResetKind(self) ==
    IF /\ self.buffer # <<>>
       /\ self.error_count > 0
       /\ self.mav.buf # <<>>
    THEN "dirty"
    ELSE "plain"

\* reset()
Reset ==
    \E s \in {ResetCall(Self)} :
        /\ resets < MaxResets
        /\ buffer' = s.buffer
        /\ mav' = s.mav
        /\ error_count' = s.error_count
        /\ resets' = resets + 1
        /\ last' = [NoCall EXCEPT !.op = "reset", !.input = ResetKind(Self)]
        /\ UNCHANGED <<gcs_sysid, gcs_compid, target_sysid, scenario, pos,
                       returned, injected, filtered, frames, mode, sent>>

Reads == \E n \in ChunkSizes : \E sinkOk \in BOOLEAN : ReadData(n, sinkOk)

Writes == \E data \in Commands : WriteData(data)

SomeWrites == \E data \in SmallCommands : WriteData(data)

Next == Reads \/ SomeWrites \/ Reset

Spec == Init /\ [][Next]_vars

\* the receive path alone, over every scenario
NextRead == Reads

SpecRead == InitRead /\ [][NextRead]_vars

\* the send path alone
NextWrite == Writes

SpecWrite == Init /\ [][NextWrite]_vars

\* ----------------------------------------------------------------- claims

\* everything on the wire was read and the last call returned STOP
Drained ==
    pos = Len(Wire(scenario)) /\ last.op = "read" /\ last.ret = "STOP"

NoSyncIn(bytes) == \A i \in 1..Len(bytes) : bytes[i] # MAVLINK_STX

\* the message read_data returns for one frame given alone to a new instance
Alone(frame) == ReadDataCall(NewInstance(255, 0, 0), frame, TRUE).msg

\* wire order source system of a frame
FrameSys(frame) == frame[6]

IsReturned(m) == \E i \in 1..Len(returned) : returned[i] = m

\* what a new instance returns when it is given all the bytes in one call
\* and is then called with no data until it returns STOP
RECURSIVE OneCall(_, _, _)
OneCall(self, data, acc) ==
    LET rs == {ReadDataCall(self, data, TRUE)}
    IN  CHOOSE out \in {IF r.ret = "STOP" THEN acc
                        ELSE OneCall([self EXCEPT !.buffer = r.buffer,
                                                  !.mav = r.mav,
                                                  !.error_count = r.error_count],
                                     <<>>, Append(acc, r.msg)) : r \in rs} : TRUE

OneCallReturned(bytes, ts) == OneCall(NewInstance(255, 0, ts), bytes, <<>>)

\* C1 as stated: garbage of any bytes, the sync byte among them, then a
\* valid frame that passes the filter: once the wire is read to its end and
\* the buffer is empty again, the frame has been returned.
C1_AnyGarbage ==
    (/\ scenario.a \in ValidFrames
     /\ PassesFilter(target_sysid, FrameSys(scenario.a))
     /\ Drained
     /\ buffer = <<>>)
    => IsReturned(Alone(scenario.a))

\* C1 amended: garbage bytes none of which is 0xFD, then a valid frame that
\* passes the filter, given to a new instance in any chunks: the call that
\* completes the frame returns it, whatever follows on the wire.
C1_GarbageWithoutSync ==
    (/\ scenario.a \in ValidFrames
     /\ NoSyncIn(scenario.g)
     /\ PassesFilter(target_sysid, FrameSys(scenario.a))
     /\ pos >= Len(scenario.g) + Len(scenario.a))
    => /\ IsReturned(Alone(scenario.a))
       /\ returned[1] = Alone(scenario.a)

C1_Witness ==
    /\ Len(scenario.g) >= 2
    /\ NoSyncIn(scenario.g)
    /\ scenario.a = FrameA
    /\ scenario.t # <<>>
    /\ mode = "mixed"
    /\ Len(returned) = 1
    /\ returned[1] = Alone(FrameA)

\* C2: a valid two-frame sequence gives the same returned messages, in the
\* same order, however it is split across calls: what the calls returned
\* once the wire is drained is what one call with all the bytes (and empty
\* calls after it) returns, and without a filter that is the two messages.
C2_FramingAcrossBoundaries ==
    (/\ scenario.g = <<>> /\ scenario.t = <<>>
     /\ scenario.a \in ValidFrames /\ scenario.b \in ValidFrames
     /\ Drained)
    => /\ returned = OneCallReturned(Wire(scenario), target_sysid)
       /\ target_sysid = 0 => returned = <<Alone(scenario.a), Alone(scenario.b)>>

C2_Witness ==
    /\ scenario.a = FrameA /\ scenario.b = FrameB
    /\ Drained
    /\ mode = "bytewise"
    /\ Len(returned) = 2

\* the write_data calls whose try block reached its return
Successes == SelectSeq(sent, LAMBDA e : e.ok)

\* the sequence byte of a packed frame
SeqByte(frame) == frame[5]

\* C3: consecutive successful write_data calls give frames whose sequence
\* byte goes up by one modulo 256 from each frame to the next.
C3_SequenceIncrements ==
    \A i \in 1..(Len(Successes) - 1) :
        SeqByte(Successes[i + 1].ret.bytes)
            = (SeqByte(Successes[i].ret.bytes) + 1) % 256

\* C4: a complete malformed candidate frame directly followed by a valid
\* frame that passes the filter: once the wire is drained the last message
\* returned is the valid frame's, as a new instance returns it.
C4_ValidAfterMalformed ==
    (/\ scenario.g = <<>>
     /\ scenario.a \in MalformedFrames
     /\ scenario.b \in ValidFrames
     /\ PassesFilter(target_sysid, FrameSys(scenario.b))
     /\ Drained)
    => /\ returned # <<>>
       /\ returned[Len(returned)] = Alone(scenario.b)

ErrorFrames == SelectSeq(frames, LAMBDA f : f.outcome = "error")

\* C5: every packet cut out of the buffer is returned, dropped by the filter,
\* or pushed to inject_tlm exactly once with its raw bytes and length.
C5_MalformedSurfaced ==
    /\ \A i \in 1..Len(frames) : frames[i].outcome # "silent"
    /\ Len(injected) = Len(ErrorFrames)
    /\ \A k \in 1..Len(injected) :
          /\ k <= Len(ErrorFrames)
          /\ injected[k].rec.raw_packet = ErrorFrames[k].packet
          /\ injected[k].rec.packet_length = Len(ErrorFrames[k].packet)

\* the last two bytes of a packet of a known message id are not the x25
\* checksum of its header and payload with the message's crc_extra
BadChecksum(packet) ==
    LET id == LEValue(packet, 7, 3)
        body == Len(packet) - MAVLINK_CRC_LEN
    IN  /\ KnownId(id)
        /\ LEValue(packet, body, 2)
             # X25(Slice(packet, 2, body) \o <<MsgClasses[NameOfId(id)].crc_extra>>)

\* C6: a packet whose checksum does not match is never returned; it is
\* reported as a CRC_FAILURE error.
C6_ChecksumRejected ==
    \A i \in 1..Len(frames) :
        BadChecksum(frames[i].packet)
        => /\ frames[i].outcome = "error"
           /\ frames[i].error_type = "CRC_FAILURE"

\* C7: with a target_sysid other than 0 only messages of that system are
\* returned and only messages of other systems are dropped by the filter;
\* with target_sysid 0 the filter drops nothing; and what is returned is
\* what an instance without a filter returns for the same bytes, less the
\* messages of other systems, in the same order and with the same content.
C7_Filtering ==
    /\ target_sysid # 0
        => \A i \in 1..Len(returned) : returned[i].SYSTEM_ID = target_sysid
    /\ \A i \in 1..Len(filtered) :
          target_sysid # 0 /\ filtered[i].srcSystem # target_sysid
    /\ Drained
        => returned = SelectSeq(OneCallReturned(Wire(scenario), 0),
                                LAMBDA m : target_sysid = 0
                                           \/ m.SYSTEM_ID = target_sysid)

C7_Witness ==
    /\ target_sysid = 1
    /\ scenario.a = FrameA /\ scenario.b = FrameB
    /\ Drained
    /\ returned = <<Alone(FrameA)>>
    /\ Len(filtered) = 1
    /\ filtered[1].srcSystem = 2

\* C8: a call whose buffer and chunk together hold no sync byte returns
\* STOP, pushes no error and leaves the buffer empty.
C8_ResyncDrains ==
    (last.op = "read" /\ last.input = "nosync")
    => /\ last.ret = "STOP"
       /\ last.pushed = 0
       /\ buffer = <<>>

C8_Witness ==
    /\ last.op = "read" /\ last.input = "nosync"
    /\ scenario.a = <<>>
    /\ Len(scenario.g) >= 2
    /\ mode = "oneshot"
    /\ buffer = <<>>

\* a correctly framed packet of a message id the registry does not have
UnknownId(packet) ==
    /\ packet[3] = 0
    /\ ~KnownId(LEValue(packet, 7, 3))

IsWireFrame(bytes) ==
    /\ Len(bytes) >= MAVLINK_HEADER_LEN + MAVLINK_CRC_LEN
    /\ bytes[1] = MAVLINK_STX
    /\ Len(bytes) = TotalLen(bytes[2])
    /\ Decode(bytes).kind = "msg"
    /\ Decode(bytes).msgId # MAVLINK_MSG_ID_UNKNOWN

\* C10: what write_data returns is a complete wire frame or a structured
\* error the caller can tell from wire bytes.
C10_EncodeFailurePolicy ==
    \A i \in 1..Len(sent) :
        \/ sent[i].ret.type = "bytes" /\ IsWireFrame(sent[i].ret.bytes)
        \/ sent[i].ret.type = "EncodeError"

\* ------------------------------------------------------------ reset (C11)

\* wires that leave, in turn, an error count, bytes inside the parser and a
\* partial frame in the buffer
ResetScenarios ==
    {[g |-> <<>>, a |-> FlipBit(FrameA, Len(FrameA), 0), b |-> SignedFlagFrame,
      t |-> <<MAVLINK_STX, 0>>],
     [g |-> <<0>>, a |-> FrameA, b |-> FrameB, t |-> <<>>],
     [g |-> <<>>, a |-> SignedFlagBadCrc, b |-> FrameA, t |-> <<>>]}

InitReset == InitWith(ResetScenarios)

NextReset == Reads \/ Reset

\* read_data and reset in any order
SpecReset == InitReset /\ [][NextReset]_vars

\* C11: a reset() step, from whatever state it is taken, leaves the buffer
\* empty, the error count 0 and the parser as __init__ makes it, that is the
\* instance equals a new instance of the same configuration; a second reset
\* changes nothing more; and gcs_sysid, gcs_compid and target_sysid keep
\* their values.
C11_ResetToFresh ==
    [][resets' = resets + 1
        => /\ buffer' = <<>>
           /\ Self' = NewInstance(gcs_sysid, gcs_compid, target_sysid)
           /\ ResetCall(Self') = Self'
           /\ ResetCall(ResetCall(Self)) = ResetCall(Self)
           /\ <<gcs_sysid, gcs_compid, target_sysid>>'
                = <<gcs_sysid, gcs_compid, target_sysid>>]_vars

\* a reset taken with a partial frame in the buffer, errors counted and
\* bytes inside the parser
C11_Witness ==
    /\ last.op = "reset"
    /\ last.input = "dirty"
    /\ resets = 1
    /\ buffer = <<>>
    /\ error_count = 0
    /\ mav = NewMav(gcs_sysid, gcs_compid)

\* -------------------------------------------------------- round trip (C12)

\* commands with every field value given under its schema name
LoopCommands ==
    {PyDict([MSGNAME |-> PyStr("HEARTBEAT"), custom_mode |-> PyInt(x[1]),
             mavlink_version |-> PyInt(x[2])]) :
        x \in {<<0, 0>>, <<16777216, 3>>}}
    \cup
    {PyDict([MSGNAME |-> PyStr("set_mode"), target_system |-> PyInt(x[1]),
             base_mode |-> PyInt(x[2]), custom_mode |-> PyInt(x[3])]) :
        x \in {<<0, 0, 0>>, <<1, 255, 5>>}}
    \cup
    {PyDict([MSGNAME |-> PyStr("heartbeat")]),
     PyBytes(DocHeartbeat), PyBytes(DocNope)}

\* the empty wire: the only bytes read are those write_data returned
NoWire == [g |-> <<>>, a |-> <<>>, b |-> <<>>, t |-> <<>>]

InitLoop ==
    /\ gcs_sysid \in {255, 1}
    /\ gcs_compid = 0
    /\ target_sysid \in Targets
    /\ buffer = <<>>
    /\ mav = NewMav(gcs_sysid, gcs_compid)
    /\ error_count = 0
    /\ scenario = NoWire
    /\ pos = 0
    /\ returned = <<>>
    /\ injected = <<>>
    /\ filtered = <<>>
    /\ frames = <<>>
    /\ last = NoCall
    /\ mode = "start"
    /\ sent = <<>>
    /\ resets = 0

\* read_data(packet) where packet is what the last write_data returned, when
\* that call packed a frame; each frame is read back at most once
ReadBack ==
    /\ sent # <<>>
    /\ sent[Len(sent)].ok
    /\ last.op = "write"
    /\ \E r \in {ReadDataCall(Self, sent[Len(sent)].ret.bytes, TRUE)} :
        /\ buffer' = r.buffer
        /\ mav' = r.mav
        /\ error_count' = r.error_count
        /\ returned' = IF r.ret = "MSG" THEN Append(returned, r.msg) ELSE returned
        /\ injected' = injected \o r.pushed
        /\ filtered' = filtered \o r.filtered
        /\ frames' = frames \o r.frames
        /\ last' = [op |-> "readback", ret |-> r.ret,
                    input |-> InputKind(buffer \o sent[Len(sent)].ret.bytes),
                    pushed |-> Len(r.pushed)]
        /\ UNCHANGED <<gcs_sysid, gcs_compid, target_sysid, scenario, pos,
                       mode, sent, resets>>

LoopWrites == \E data \in LoopCommands : WriteData(data)

NextLoop == LoopWrites \/ ReadBack

\* write_data and read_data of what it returned, on one instance
SpecLoop == InitLoop /\ [][NextLoop]_vars

\* the command as a dict
CommandDict(data) ==
    IF data.type = "dict" THEN data.dict ELSE JsonLoads(data.bytes).dict

\* the message the caller asked write_data to encode: the class named and,
\* for each schema field, the value given (0 when the field is left out)
Intended(data) ==
    LET cmd == CommandDict(data)
        cls == MsgClasses[Upper(cmd.MSGNAME.s)]
    IN  [MSGID |-> cls.id, MSGNAME |-> Upper(cmd.MSGNAME.s),
         fields |-> [f \in {cls.fieldnames[k] : k \in 1..Len(cls.fieldnames)} |->
                        IF f \in DOMAIN cmd THEN cmd[f].n ELSE 0]]

\* the last message read_data returned is the one the last write_data encoded
ReadBackMatches ==
    /\ last.ret = "MSG"
    /\ returned # <<>>
    /\ LET m == returned[Len(returned)]
           w == Intended(sent[Len(sent)].data)
       IN  /\ m.MSGNAME = w.MSGNAME
           /\ m.MSGID = w.MSGID
           /\ m.fields = w.fields

\* C12 as stated: read_data of the bytes write_data returned gives back a
\* decoded message of the same name and id with the same field values.
C12_RoundTrip ==
    last.op = "readback" => ReadBackMatches

\* C12 amended: the same for an instance whose filter lets its own frames
\* pass (target_sysid 0 or equal to gcs_sysid); with another target_sysid
\* the frame is dropped by the filter, as the decoded message, and read_data
\* returns STOP.
C12_RoundTripPassingFilter ==
    last.op = "readback"
    => IF PassesFilter(target_sysid, gcs_sysid)
       THEN ReadBackMatches
       ELSE /\ last.ret = "STOP"
            /\ filtered # <<>>
            /\ filtered[Len(filtered)].fields = Intended(sent[Len(sent)].data).fields
            /\ filtered[Len(filtered)].srcSystem = gcs_sysid

\* a HEARTBEAT with a custom_mode of four bytes and a SET_MODE of zeros,
\* whose payload is cut to one byte on the wire, both read back
C12_Witness ==
    /\ last.op = "readback"
    /\ target_sysid = gcs_sysid
    /\ Len(returned) = 2
    /\ returned[1].MSGNAME = "HEARTBEAT"
    /\ returned[1].fields.custom_mode = 16777216
    /\ returned[1].fields.mavlink_version = 3
    /\ returned[2].MSGNAME = "SET_MODE"
    /\ Len(sent[2].ret.bytes) = MAVLINK_HEADER_LEN + 1 + MAVLINK_CRC_LEN

\* ------------------------------------------- the loop pass by pass (C13)

\* garbage before a frame, frames back to back, malformed candidates, and
\* wires that end inside a frame
IterScenarios ==
    ResetScenarios
    \cup {[g |-> g, a |-> FrameA, b |-> <<>>, t |-> <<>>] : g \in Garbage}
    \cup {[g |-> <<>>, a |-> a, b |-> FrameB, t |-> <<MAVLINK_STX>>] :
            a \in {UnknownIdFrame, OtherFlagFrame, FrameA}}
    \cup {[g |-> <<>>, a |-> ZeroLenFrame, b |-> FrameA, t |-> <<>>],
          [g |-> <<MAVLINK_STX, 255>>, a |-> FrameA, b |-> <<>>, t |-> <<>>]}

InitIter == InitWith(IterScenarios)

\* read_data(data) up to the while loop: self.buffer += data
EnterRead(n) ==
    /\ last.op # "in"
    /\ buffer' = AppendData(buffer, Slice(Wire(scenario), pos + 1, pos + n))
    /\ pos' = pos + n
    /\ last' = [op |-> "in", ret |-> "", input |-> InputKind(buffer'), pushed |-> 0,
                passes |-> 0, entry |-> Len(buffer')]
    /\ mode' = NextMode(n)
    /\ UNCHANGED <<gcs_sysid, gcs_compid, target_sysid, mav, error_count,
                   scenario, returned, injected, filtered, frames, sent, resets>>

\* one pass of the while loop of the call that is running
LoopPass(sinkOk) ==
    /\ last.op = "in"
    /\ \E s \in {LoopStep([target_sysid |-> target_sysid, buffer |-> buffer,
                           mav |-> mav, error_count |-> error_count,
                           ret |-> "", msg |-> NoMsg, pushed |-> <<>>,
                           filtered |-> <<>>, frames |-> <<>>], sinkOk)} :
        /\ buffer' = s.buffer
        /\ mav' = s.mav
        /\ error_count' = s.error_count
        /\ returned' = IF s.ret = "MSG" THEN Append(returned, s.msg) ELSE returned
        /\ injected' = injected \o s.pushed
        /\ filtered' = filtered \o s.filtered
        /\ frames' = frames \o s.frames
        /\ last' = [last EXCEPT !.op = IF s.ret = "" THEN "in" ELSE "read",
                                !.ret = s.ret,
                                !.pushed = @ + Len(s.pushed),
                                !.passes = @ + 1]
        /\ UNCHANGED <<gcs_sysid, gcs_compid, target_sysid, scenario, pos,
                       mode, sent, resets>>

Enters == \E n \in ChunkSizes : EnterRead(n)

Passes == \E sinkOk \in BOOLEAN : LoopPass(sinkOk)

NextIter == Enters \/ Passes

\* read_data with every pass of its loop a step; last counts the passes of
\* the call and keeps the length of the buffer at its first pass
SpecIter == InitIter /\ [][NextIter]_vars

\* the buffer starts with the sync byte and holds less than the header, or
\* less than the packet its second byte announces
Incomplete(b) ==
    /\ b # <<>>
    /\ b[1] = MAVLINK_STX
    /\ \/ Len(b) < MAVLINK_HEADER_LEN
       \/ Len(b) < MAVLINK_HEADER_LEN + b[2] + MAVLINK_CRC_LEN

\* C13: every read_data call returns: a pass of the loop that does not
\* return leaves the buffer strictly shorter, so a call takes at most one
\* pass more than the buffer had bytes when its loop began; and a pass that
\* finds an incomplete frame returns STOP with the bytes left in the buffer.
C13_ReadDataCompletes ==
    /\ [][(last.op = "in" /\ last'.op = "in")
            => (Len(buffer') < Len(buffer) /\ last'.passes = last.passes + 1)]_vars
    /\ [][(last.op = "in" /\ Incomplete(buffer))
            => (last'.op = "read" /\ last'.ret = "STOP" /\ buffer' = buffer)]_vars
    /\ [](last.op \in {"in", "read"} => last.passes <= last.entry + 1)

\* a call that took a pass that did not return, then found the rest of the
\* wire to be the start of a frame and returned STOP with it in the buffer
C13_Witness ==
    /\ last.op = "read"
    /\ last.ret = "STOP"
    /\ last.passes >= 3
    /\ pos = Len(Wire(scenario))
    /\ mode = "oneshot"
    /\ Len(frames) >= 2
    /\ Incomplete(buffer)

\* ------------------------------------------ frames already buffered (C14)

\* two valid frames back to back, both passing the filter, and nothing else
\* on the wire, all of it given to the first read_data call
TwoFramesInOneCall ==
    /\ scenario.g = <<>> /\ scenario.t = <<>>
    /\ scenario.a \in ValidFrames /\ scenario.b \in ValidFrames
    /\ PassesFilter(target_sysid, FrameSys(scenario.a))
    /\ PassesFilter(target_sysid, FrameSys(scenario.b))
    /\ mode = "oneshot"

\* C14 as stated: the call that is given two complete valid frames delivers
\* both decoded messages, in stream order.
C14_AllFramesInOneCall ==
    TwoFramesInOneCall
    => returned = <<Alone(scenario.a), Alone(scenario.b)>>

\* C14 amended: that call returns the first frame's message only and leaves
\* the second frame in the buffer; each following call, also one with no
\* data, returns the next message, so that when a call returns STOP both
\* messages have been returned in stream order.
C14_OneFramePerCall ==
    TwoFramesInOneCall
    => /\ returned # <<>>
       /\ returned[1] = Alone(scenario.a)
       /\ Len(returned) = 1 => (buffer = scenario.b /\ last.ret = "MSG")
       /\ Len(returned) = 2 => (buffer = <<>> /\ returned[2] = Alone(scenario.b))
       /\ last.ret = "STOP" => Len(returned) = 2
       /\ Len(returned) <= 2

C14_Witness ==
    /\ TwoFramesInOneCall
    /\ scenario.a = FrameB /\ scenario.b = FrameA
    /\ target_sysid = 0
    /\ Drained
    /\ returned = <<Alone(FrameB), Alone(FrameA)>>

\* ---------------------------------------------------- incomplete input (C15)

IsPrefix(p, s) == Len(p) <= Len(s) /\ Slice(s, 1, Len(p)) = p

\* C15: a pass that finds the buffer starting with 0xFD and shorter than the
\* header, or than the packet its length byte announces, returns STOP with
\* no error pushed or counted, nothing returned or cut out, and the parser and
\* the buffer as they were; the next call appends to the bytes kept; and so
\* a valid frame that arrives in pieces on a new instance is returned by the
\* call that brings its last byte.
C15_IncompleteSuspends ==
    /\ [][(last.op = "in" /\ Incomplete(buffer))
            => /\ last'.op = "read" /\ last'.ret = "STOP"
               /\ last'.pushed = last.pushed
               /\ injected' = injected
               /\ error_count' = error_count
               /\ mav' = mav
               /\ buffer' = buffer
               /\ returned' = returned
               /\ frames' = frames]_vars
    /\ [][(last.op = "read" /\ Incomplete(buffer) /\ last'.op = "in")
            => IsPrefix(buffer, buffer')]_vars
    /\ []((/\ scenario.g = <<>>
           /\ scenario.a \in ValidFrames
           /\ PassesFilter(target_sysid, FrameSys(scenario.a))
           /\ last.op = "read")
          => IF pos < Len(scenario.a)
             THEN /\ last.ret = "STOP"
                  /\ returned = <<>>
                  /\ buffer = Slice(scenario.a, 1, pos)
                  /\ injected = <<>>
                  /\ error_count = 0
                  /\ mav = NewMav(gcs_sysid, gcs_compid)
             ELSE /\ returned # <<>>
                  /\ returned[1] = Alone(scenario.a))

\* a frame fed one byte per call: every call but the last returned STOP
\* with the bytes so far in the buffer, the last returned the message
C15_Witness ==
    /\ scenario.g = <<>>
    /\ scenario.a = FrameA
    /\ mode = "bytewise"
    /\ pos = Len(FrameA)
    /\ last.op = "read"
    /\ last.ret = "MSG"
    /\ returned = <<Alone(FrameA)>>
    /\ error_count = 0

\* ----------------------------------------------------- frame extraction (C16)

\* how many bytes of the wire have left the buffer
Consumed == pos - Len(buffer)

\* the buffer holds a complete candidate packet at its front
CompleteAtFront(b) == b # <<>> /\ b[1] = MAVLINK_STX /\ ~Incomplete(b)

\* C16: a pass that finds a complete candidate at the front of the buffer
\* cuts out exactly 10 + buffer[1] + 2 bytes (buffer[1] the second byte), the
\* packet being those bytes of the wire, and leaves every byte behind them
\* in the buffer in order; the buffer always is the end of what was read; and
\* the bytes that have left the buffer only grow, so no byte is part of two
\* packets.
C16_ExactExtraction ==
    /\ [][(last.op = "in" /\ CompleteAtFront(buffer))
            => LET n == 10 + buffer[2] + 2
               IN  /\ Len(frames') = Len(frames) + 1
                   /\ frames'[Len(frames')].packet = Slice(buffer, 1, n)
                   /\ frames'[Len(frames')].packet
                        = Slice(Wire(scenario), Consumed + 1, Consumed + n)
                   /\ buffer' = Slice(buffer, n + 1, Len(buffer))
                   /\ Consumed' = Consumed + n]_vars
    /\ [][Consumed' >= Consumed /\ (Len(frames') = Len(frames)
                                    \/ Len(frames') = Len(frames) + 1)]_vars
    /\ [][(Len(frames') = Len(frames) + 1)
            => (last.op = "in" /\ CompleteAtFront(buffer))]_vars
    /\ [](buffer = Slice(Wire(scenario), Consumed + 1, pos))

\* a 12-byte packet with no payload cut out of a buffer that holds the
\* next frame behind it
C16_Witness ==
    /\ scenario.a = ZeroLenFrame
    /\ scenario.b = FrameA
    /\ mode = "oneshot"
    /\ Len(frames) = 1
    /\ frames[1].packet = ZeroLenFrame
    /\ Len(ZeroLenFrame) = 12
    /\ frames[1].outcome = "returned"
    /\ buffer = FrameA

\* ----------------------------------------------------- field resolution (C17)

\* str.lower() on the keys the commands use
KeyLower(k) == IF k = "CUSTOM_MODE" THEN "custom_mode" ELSE k

\* the value the encoder is to use for a schema field: the caller's value
\* under the exact key, else under a key that matches without regard to
\* case, else 0
ResolvedValue(cmd, field) ==
    IF field \in DOMAIN cmd THEN cmd[field].n
    ELSE IF \E k \in DOMAIN cmd : KeyLower(k) = field
    THEN cmd[CHOOSE k \in DOMAIN cmd : KeyLower(k) = field].n
    ELSE 0

\* C17: every frame write_data packs carries, for each schema field, the
\* caller's value under the exact key, else the value under a key that
\* matches case-insensitively, else 0.
C17_FieldResolution ==
    \A i \in 1..Len(sent) :
        sent[i].ok
        => LET cmd == CommandDict(sent[i].data)
               m == Decode(sent[i].ret.bytes)
           IN  /\ m.kind = "msg"
               /\ \A f \in DOMAIN m.fields : m.fields[f] = ResolvedValue(cmd, f)

\* ------------------------------------------------- error sink failures (C18)

\* the last inject_tlm call raised
LastPushRaised(inj) == inj # <<>> /\ inj[Len(inj)].raised

\* C18: no exception of inject_tlm leaves read_data; a pass whose
\* inject_tlm call raises still counts the error, has the packet out of the
\* buffer and ends in continue; and a valid frame behind a malformed one
\* whose error push raised is returned by the same call.
C18_SinkFailureContained ==
    /\ [](last.ret # "RAISE")
    /\ [][(Len(injected') = Len(injected) + 1 /\ LastPushRaised(injected'))
            => /\ last.op = "in" /\ last'.op = "in"
               /\ error_count' = error_count + 1
               /\ Len(frames') = Len(frames) + 1
               /\ frames'[Len(frames')].outcome = "error"
               /\ injected'[Len(injected')].rec.raw_packet
                    = frames'[Len(frames')].packet
               /\ buffer' = Slice(buffer, Len(frames'[Len(frames')].packet) + 1,
                                  Len(buffer))]_vars
    /\ []((/\ scenario.a \in {UnknownIdFrame, OtherFlagFrame}
           /\ scenario.b = FrameB
           /\ target_sysid = 0
           /\ mode = "oneshot"
           /\ last.op = "read")
          => /\ Len(injected) = 1
             /\ error_count = 1
             /\ returned # <<>>
             /\ returned[1] = Alone(FrameB))

\* one call given a packet with an unknown incompat flag and a valid frame:
\* inject_tlm raised for the first, the call returned the second
C18_Witness ==
    /\ scenario.a = OtherFlagFrame
    /\ scenario.b = FrameB
    /\ target_sysid = 0
    /\ mode = "oneshot"
    /\ last.op = "read"
    /\ last.ret = "MSG"
    /\ last.passes = 2
    /\ Len(injected) = 1
    /\ injected[1].raised
    /\ error_count = 1
    /\ returned = <<Alone(FrameB)>>

\* ------------------------------------------- one packet, one decision (C19)

\* what becomes of a packet given alone to a new instance with this filter
OutcomeAlone(packet, ts) ==
    ReadDataCall(NewInstance(255, 0, ts), packet, TRUE).frames[1].outcome

\* C19: between two packets the parser holds no bytes, and what becomes of
\* each packet cut out of the buffer (returned, filtered, error) is what
\* becomes of it when it is the first packet of a new instance.
C19_FramesDecidedAlone ==
    /\ mav.buf = <<>>
    /\ \A i \in 1..Len(frames) :
          frames[i].outcome = OutcomeAlone(frames[i].packet, target_sysid)

\* ------------------------------------------------ the buffer at a STOP (C20)

\* C20: when read_data has returned STOP the buffer is empty, or it starts
\* with 0xFD and is shorter than the header or than the packet its length
\* byte announces; so it holds at most 266 bytes and no complete candidate
\* packet.
C20_BufferAtStop ==
    (last.op = "read" /\ last.ret = "STOP")
    => /\ buffer = <<>> \/ Incomplete(buffer)
       /\ Len(buffer) <= 266
       /\ ~CompleteAtFront(buffer)

\* a STOP with a whole valid frame in the buffer behind a header that
\* announces 255 bytes of payload
C20_Witness ==
    /\ last.op = "read"
    /\ last.ret = "STOP"
    /\ pos = Len(Wire(scenario))
    /\ buffer = <<MAVLINK_STX, 255>> \o FrameA
    /\ frames = <<>>

====
